---------------------------- MODULE Spec2Model ----------------------------
(***************************************************************************)
(* Garage door controller firmware (OpenSezMe), two sketches:              *)
(*   variant "A": door-qualified open / close / check entry points with    *)
(*                change notifications (src/unnamed/part_000)              *)
(*   variant "B": one doorCommand entry point with an overloaded result    *)
(*                (src/doorController.ino)                                 *)
(* A behaviour runs one of the two sketches; which one is fixed at         *)
(* start-up.  Every framework callback (loop, a registered cloud function) *)
(* runs to completion: one action per callback.  What a callback does to   *)
(* the outside world (digitalWrite, digitalRead, Spark.publish) is kept,   *)
(* in program order, in the variable io.                                   *)
(***************************************************************************)
EXTENDS Integers, Sequences, FiniteSets

(* ------------------------------------------------------------------ *)
(* Strings the code inspects character by character are sequences of   *)
(* one-character strings, so that startsWith is a real prefix test.    *)
(* ------------------------------------------------------------------ *)
SingleDoor == <<"S", "I", "N", "G", "L", "E">>
DoubleDoor == <<"D", "O", "U", "B", "L", "E">>

OpenCommand == <<"O", "P", "E", "N">>
CloseCommand == <<"C", "L", "O", "S", "E">>
CheckSingleCommand == <<"C", "H", "E", "C", "K", "S", "I", "N", "G", "L", "E">>
CheckDoubleCommand == <<"C", "H", "E", "C", "K", "D", "O", "U", "B", "L", "E">>

WallSwitch == "WallSwitch"
ParticleCommand == "ParticleCommand"

ClosedState == "Down"
OpenedState == "Up"

StateOffset == 10

(* typedef enum { DoorUp, DoorDown, StateUnknown } DoorState *)
DoorUp == 0
DoorDown == 1
StateUnknown == 2

(* ------------------------------------------------------------------ *)
(* Inputs                                                              *)
(* ------------------------------------------------------------------ *)

(* longest trailing data appended to a command string *)
MaxTrail == 1

TrailChars == {" ", "X"}

Trails == UNION {[1..n -> TrailChars] : n \in 0..MaxTrail}

(* heads of the command strings sent by the server: every identifier of  *)
(* either sketch, and near misses of them (empty, truncated, lower case,  *)
(* leading blank, identifier not at the start)                            *)
CommandHeads ==
  { SingleDoor, DoubleDoor,
    OpenCommand, CloseCommand, CheckSingleCommand, CheckDoubleCommand,
    << >>,
    <<"S", "I", "N", "G", "L">>,
    <<"s", "i", "n", "g", "l", "e">>,
    <<" ", "D", "O", "U", "B", "L", "E">>,
    <<"C", "L", "O", "S">>,
    <<"C", "H", "E", "C", "K">>,
    <<"X", "O", "P", "E", "N">> }

Commands == {h \o t : h \in CommandHeads, t \in Trails}

(* values digitalRead can return *)
Readings == {0, 1}

VARIABLES
  variant,              \* which sketch runs: "A" or "B"
  singleDoor,           \* Door singleDoor
  doubleDoor,           \* Door doubleDoor
  lastSingleDoorState,  \* variant A
  lastDoubleDoorState,  \* variant A
  commandSource,        \* variant A
  pinLevel,             \* level of every output pin
  call,                 \* the callback that ran last, with its argument
  result,               \* what the last cloud function returned
  io                    \* digitalWrite / digitalRead / publish calls of the last callback

vars == <<variant, singleDoor, doubleDoor, lastSingleDoorState,
          lastDoubleDoorState, commandSource, pinLevel, call, result, io>>

(* ------------------------------------------------------------------ *)
(* String.startsWith                                                   *)
(* ------------------------------------------------------------------ *)
startsWith(s, p) ==
  /\ Len(p) <= Len(s)
  /\ SubSeq(s, 1, Len(p)) = p

(* ------------------------------------------------------------------ *)
(* External calls, as entries of io                                    *)
(* ------------------------------------------------------------------ *)
digitalWrite(pin, value) == [kind |-> "digitalWrite", pin |-> pin, value |-> value]

digitalRead(pin, value) == [kind |-> "digitalRead", pin |-> pin, value |-> value]

publish(event, data) == [kind |-> "publish", event |-> event, data |-> data]

(* the pin levels after the digitalWrite calls of trace t, in order *)
RECURSIVE ApplyWrites(_, _)
ApplyWrites(levels, t) ==
  IF t = << >> THEN levels
  ELSE LET e == Head(t)
       IN  ApplyWrites(IF e.kind = "digitalWrite"
                         THEN [levels EXCEPT ![e.pin] = e.value]
                         ELSE levels,
                       Tail(t))

(* ------------------------------------------------------------------ *)
(* Door helpers (the same text in both sketches)                       *)
(* ------------------------------------------------------------------ *)

(* writes of setDoorPins: the control pin is driven LOW *)
setDoorPins(door) == <<digitalWrite(door.controlPin, "LOW")>>

engageDoor_stuckHigh(door) ==
  [ret |-> 1, io |-> <<digitalWrite(door.controlPin, "HIGH")>>]

(* int engageDoor(Door *door): pulse the control pin, return 1 *)
engageDoor(door) ==
  [ret |-> 1,
   io  |-> <<digitalWrite(door.controlPin, "HIGH"),
             digitalWrite(door.controlPin, "LOW")>>]

readDoorState_inverted(door, reading) ==
  IF reading = 0 THEN DoorDown ELSE DoorUp

(* DoorState readDoorState(Door *door), given what digitalRead returns *)
readDoorState(door, reading) ==
  IF reading = 1 THEN DoorDown ELSE DoorUp

updateDoorState_labelOnDown(door, reading) ==
  LET sensedState == readDoorState(door, reading)
  IN  [door |-> IF sensedState = DoorDown
                  THEN [door EXCEPT !.state = DoorDown, !.stateString = ClosedState]
                  ELSE [door EXCEPT !.state = DoorUp],
       ret  |-> sensedState,
       io   |-> <<digitalWrite(door.senseOutPin, "HIGH"),
                  digitalRead(door.senseInPin, reading),
                  digitalWrite(door.senseOutPin, "LOW")>>]

(* DoorState updateDoorState(Door *door): the door record as written, *)
(* the returned state and the calls made                              *)
updateDoorState(door, reading) ==
  LET sensedState == readDoorState(door, reading)
  IN  [door |-> IF sensedState = DoorDown
                  THEN [door EXCEPT !.state = DoorDown, !.stateString = ClosedState]
                  ELSE [door EXCEPT !.state = DoorUp, !.stateString = OpenedState],
       ret  |-> sensedState,
       io   |-> <<digitalWrite(door.senseOutPin, "HIGH"),
                  digitalRead(door.senseInPin, reading),
                  digitalWrite(door.senseOutPin, "LOW")>>]

(* void setLed(DoorState doorState), variant B *)
setLed(doorState) ==
  IF doorState = DoorUp
    THEN <<digitalWrite("D7", "HIGH")>>
    ELSE <<digitalWrite("D7", "LOW")>>

(* ------------------------------------------------------------------ *)
(* Start-up: the globals as initialised, then setup()                  *)
(* ------------------------------------------------------------------ *)
singleDoor0 ==
  [controlPin |-> "D0", senseOutPin |-> "D1", senseInPin |-> "D2",
   state |-> StateUnknown, stateString |-> ""]

doubleDoor0 ==
  [controlPin |-> "D4", senseOutPin |-> "D5", senseInPin |-> "D6",
   state |-> StateUnknown, stateString |-> ""]

(* output pins of a sketch; all are low when pinMode makes them outputs *)
OutPins(v) ==
  {"D0", "D1", "D4", "D5"} \cup (IF v = "B" THEN {"D7"} ELSE {})

setup(v) ==
  ApplyWrites([p \in OutPins(v) |-> "LOW"],
              setDoorPins(singleDoor0) \o setDoorPins(doubleDoor0))

Init ==
  /\ variant \in {"A", "B"}
  /\ singleDoor = singleDoor0
  /\ doubleDoor = doubleDoor0
  /\ lastSingleDoorState = StateUnknown
  /\ lastDoubleDoorState = StateUnknown
  /\ commandSource = WallSwitch
  /\ pinLevel = setup(variant)
  /\ call = [fn |-> "setup", command |-> << >>]
  /\ result = 0
  /\ io = setDoorPins(singleDoor0) \o setDoorPins(doubleDoor0)


(* ------------------------------------------------------------------ *)
(* Variant A: loop(), openCommand(), closeCommand(), checkCommand()    *)
(* ------------------------------------------------------------------ *)

(* event name built by strcat: the door's prefix, then the state's text *)
eventName(prefix, currentState) ==
  <<prefix, IF currentState = DoorDown THEN ClosedState ELSE OpenedState>>

loop_noCompare(rd, rs) ==
  /\ variant = "A"
  /\ LET ud == updateDoorState(doubleDoor, rd)
         us == updateDoorState(singleDoor, rs)
     IN  /\ doubleDoor' = ud.door
         /\ singleDoor' = us.door
         /\ lastDoubleDoorState' = ud.ret
         /\ lastSingleDoorState' = us.ret
         /\ commandSource' = WallSwitch
         /\ io' = ud.io \o <<publish(eventName("double door ", ud.ret), commandSource)>>
                  \o us.io \o <<publish(eventName("single door ", us.ret), WallSwitch)>>
         /\ pinLevel' = ApplyWrites(pinLevel, io')
  /\ call' = [fn |-> "loop", command |-> << >>]
  /\ UNCHANGED <<variant, result>>

loop_skipUnknown(rd, rs) ==
  /\ variant = "A"
  /\ LET ud == updateDoorState(doubleDoor, rd)
         changedD == ud.ret # lastDoubleDoorState
         tellD == changedD /\ lastDoubleDoorState # StateUnknown
         source1 == IF tellD THEN WallSwitch ELSE commandSource
         us == updateDoorState(singleDoor, rs)
         changedS == us.ret # lastSingleDoorState
         tellS == changedS /\ lastSingleDoorState # StateUnknown
     IN  /\ doubleDoor' = ud.door
         /\ singleDoor' = us.door
         /\ lastDoubleDoorState' = ud.ret
         /\ lastSingleDoorState' = us.ret
         /\ commandSource' = IF tellS THEN WallSwitch ELSE source1
         /\ io' = ud.io
                  \o (IF tellD
                        THEN <<publish(eventName("double door ", ud.ret), commandSource)>>
                        ELSE << >>)
                  \o us.io
                  \o (IF tellS
                        THEN <<publish(eventName("single door ", us.ret), source1)>>
                        ELSE << >>)
         /\ pinLevel' = ApplyWrites(pinLevel, io')
  /\ call' = [fn |-> "loop", command |-> << >>]
  /\ UNCHANGED <<variant, result>>

loop_singleFirst(rd, rs) ==
  /\ variant = "A"
  /\ LET us == updateDoorState(singleDoor, rs)
         changedS == us.ret # lastSingleDoorState
         source1 == IF changedS THEN WallSwitch ELSE commandSource
         ud == updateDoorState(doubleDoor, rd)
         changedD == ud.ret # lastDoubleDoorState
     IN  /\ doubleDoor' = ud.door
         /\ singleDoor' = us.door
         /\ lastDoubleDoorState' = IF changedD THEN ud.ret ELSE lastDoubleDoorState
         /\ lastSingleDoorState' = IF changedS THEN us.ret ELSE lastSingleDoorState
         /\ commandSource' = IF changedD THEN WallSwitch ELSE source1
         /\ io' = us.io
                  \o (IF changedS
                        THEN <<publish(eventName("single door ", us.ret), commandSource)>>
                        ELSE << >>)
                  \o ud.io
                  \o (IF changedD
                        THEN <<publish(eventName("double door ", ud.ret), source1)>>
                        ELSE << >>)
         /\ pinLevel' = ApplyWrites(pinLevel, io')
  /\ call' = [fn |-> "loop", command |-> << >>]
  /\ UNCHANGED <<variant, result>>

loop_noReset(rd, rs) ==
  /\ variant = "A"
  /\ LET ud == updateDoorState(doubleDoor, rd)
         changedD == ud.ret # lastDoubleDoorState
         source1 == IF changedD THEN WallSwitch ELSE commandSource
         us == updateDoorState(singleDoor, rs)
         changedS == us.ret # lastSingleDoorState
     IN  /\ doubleDoor' = ud.door
         /\ singleDoor' = us.door
         /\ lastDoubleDoorState' = IF changedD THEN ud.ret ELSE lastDoubleDoorState
         /\ lastSingleDoorState' = IF changedS THEN us.ret ELSE lastSingleDoorState
         /\ commandSource' = source1
         /\ io' = ud.io
                  \o (IF changedD
                        THEN <<publish(eventName("double door ", ud.ret), commandSource)>>
                        ELSE << >>)
                  \o us.io
                  \o (IF changedS
                        THEN <<publish(eventName("single door ", us.ret), source1)>>
                        ELSE << >>)
         /\ pinLevel' = ApplyWrites(pinLevel, io')
  /\ call' = [fn |-> "loop", command |-> << >>]
  /\ UNCHANGED <<variant, result>>

loop_noRecord(rd, rs) ==
  /\ variant = "A"
  /\ LET ud == updateDoorState(doubleDoor, rd)
         changedD == ud.ret # lastDoubleDoorState
         source1 == IF changedD THEN WallSwitch ELSE commandSource
         us == updateDoorState(singleDoor, rs)
         changedS == us.ret # lastSingleDoorState
     IN  /\ doubleDoor' = ud.door
         /\ singleDoor' = us.door
         /\ lastDoubleDoorState' = IF changedD THEN ud.ret ELSE lastDoubleDoorState
         /\ lastSingleDoorState' = lastSingleDoorState
         /\ commandSource' = IF changedS THEN WallSwitch ELSE source1
         /\ io' = ud.io
                  \o (IF changedD
                        THEN <<publish(eventName("double door ", ud.ret), commandSource)>>
                        ELSE << >>)
                  \o us.io
                  \o (IF changedS
                        THEN <<publish(eventName("single door ", us.ret), source1)>>
                        ELSE << >>)
         /\ pinLevel' = ApplyWrites(pinLevel, io')
  /\ call' = [fn |-> "loop", command |-> << >>]
  /\ UNCHANGED <<variant, result>>

(* void loop(void): rd, rs are what digitalRead returns for the double    *)
(* and for the single door's sense input                                  *)
loop(rd, rs) ==
  /\ variant = "A"
  /\ LET ud == updateDoorState(doubleDoor, rd)
         changedD == ud.ret # lastDoubleDoorState
         \* the command source once the double door has been handled
         source1 == IF changedD THEN WallSwitch ELSE commandSource
         us == updateDoorState(singleDoor, rs)
         changedS == us.ret # lastSingleDoorState
     IN  /\ doubleDoor' = ud.door
         /\ singleDoor' = us.door
         /\ lastDoubleDoorState' = IF changedD THEN ud.ret ELSE lastDoubleDoorState
         /\ lastSingleDoorState' = IF changedS THEN us.ret ELSE lastSingleDoorState
         /\ commandSource' = IF changedS THEN WallSwitch ELSE source1
         /\ io' = ud.io
                  \o (IF changedD
                        THEN <<publish(eventName("double door ", ud.ret), commandSource)>>
                        ELSE << >>)
                  \o us.io
                  \o (IF changedS
                        THEN <<publish(eventName("single door ", us.ret), source1)>>
                        ELSE << >>)
         /\ pinLevel' = ApplyWrites(pinLevel, io')
  /\ call' = [fn |-> "loop", command |-> << >>]
  /\ UNCHANGED <<variant, result>>

openCommand_noGuard(command) ==
  /\ variant = "A"
  /\ LET door == IF startsWith(command, SingleDoor) THEN singleDoor ELSE doubleDoor
         known == startsWith(command, SingleDoor) \/ startsWith(command, DoubleDoor)
         e == engageDoor(door)
     IN  /\ result' = IF known THEN e.ret ELSE -1
         /\ commandSource' = IF known THEN ParticleCommand ELSE commandSource
         /\ io' = IF known THEN e.io ELSE << >>
         /\ pinLevel' = ApplyWrites(pinLevel, io')
  /\ call' = [fn |-> "openCommand", command |-> command]
  /\ UNCHANGED <<variant, singleDoor, doubleDoor, lastSingleDoorState, lastDoubleDoorState>>

openCommand_noSource(command) ==
  /\ variant = "A"
  /\ LET door == IF startsWith(command, SingleDoor) THEN singleDoor ELSE doubleDoor
         known == startsWith(command, SingleDoor) \/ startsWith(command, DoubleDoor)
         engage == known /\ door.state = DoorDown
         e == engageDoor(door)
     IN  /\ result' = IF engage THEN e.ret ELSE IF known THEN 0 ELSE -1
         /\ commandSource' = commandSource
         /\ io' = IF engage THEN e.io ELSE << >>
         /\ pinLevel' = ApplyWrites(pinLevel, io')
  /\ call' = [fn |-> "openCommand", command |-> command]
  /\ UNCHANGED <<variant, singleDoor, doubleDoor, lastSingleDoorState, lastDoubleDoorState>>

openCommand_optimistic(command) ==
  /\ variant = "A"
  /\ LET single == startsWith(command, SingleDoor)
         double == ~single /\ startsWith(command, DoubleDoor)
         door == IF single THEN singleDoor ELSE doubleDoor
         engage == (single \/ double) /\ door.state = DoorDown
         e == engageDoor(door)
         moved == [door EXCEPT !.state = DoorUp, !.stateString = OpenedState]
     IN  /\ result' = IF engage THEN e.ret ELSE IF single \/ double THEN 0 ELSE -1
         /\ commandSource' = IF engage THEN ParticleCommand ELSE commandSource
         /\ io' = IF engage THEN e.io ELSE << >>
         /\ singleDoor' = IF engage /\ single THEN moved ELSE singleDoor
         /\ doubleDoor' = IF engage /\ double THEN moved ELSE doubleDoor
         /\ pinLevel' = ApplyWrites(pinLevel, io')
  /\ call' = [fn |-> "openCommand", command |-> command]
  /\ UNCHANGED <<variant, lastSingleDoorState, lastDoubleDoorState>>

(* int openCommand(String command) *)
openCommand(command) ==
  /\ variant = "A"
  /\ IF startsWith(command, SingleDoor)
       THEN IF singleDoor.state = DoorDown
              THEN LET e == engageDoor(singleDoor)
                   IN  /\ result' = e.ret
                       /\ io' = e.io
                       /\ commandSource' = ParticleCommand
              ELSE /\ result' = 0
                   /\ io' = << >>
                   /\ commandSource' = commandSource
       ELSE IF startsWith(command, DoubleDoor)
              THEN IF doubleDoor.state = DoorDown
                     THEN LET e == engageDoor(doubleDoor)
                          IN  /\ result' = e.ret
                              /\ io' = e.io
                              /\ commandSource' = ParticleCommand
                     ELSE /\ result' = 0
                          /\ io' = << >>
                          /\ commandSource' = commandSource
              ELSE /\ result' = -1
                   /\ io' = << >>
                   /\ commandSource' = commandSource
  /\ pinLevel' = ApplyWrites(pinLevel, io')
  /\ call' = [fn |-> "openCommand", command |-> command]
  /\ UNCHANGED <<variant, singleDoor, doubleDoor, lastSingleDoorState, lastDoubleDoorState>>

closeCommand_guardDown(command) ==
  /\ variant = "A"
  /\ LET door == IF startsWith(command, SingleDoor) THEN singleDoor ELSE doubleDoor
         known == startsWith(command, SingleDoor) \/ startsWith(command, DoubleDoor)
         engage == known /\ door.state = DoorDown
         e == engageDoor(door)
     IN  /\ result' = IF engage THEN e.ret ELSE IF known THEN 0 ELSE -1
         /\ commandSource' = IF engage THEN ParticleCommand ELSE commandSource
         /\ io' = IF engage THEN e.io ELSE << >>
         /\ pinLevel' = ApplyWrites(pinLevel, io')
  /\ call' = [fn |-> "closeCommand", command |-> command]
  /\ UNCHANGED <<variant, singleDoor, doubleDoor, lastSingleDoorState, lastDoubleDoorState>>

closeCommand_notDown(command) ==
  /\ variant = "A"
  /\ LET door == IF startsWith(command, SingleDoor) THEN singleDoor ELSE doubleDoor
         known == startsWith(command, SingleDoor) \/ startsWith(command, DoubleDoor)
         engage == known /\ door.state # DoorDown
         e == engageDoor(door)
     IN  /\ result' = IF engage THEN e.ret ELSE IF known THEN 0 ELSE -1
         /\ commandSource' = IF engage THEN ParticleCommand ELSE commandSource
         /\ io' = IF engage THEN e.io ELSE << >>
         /\ pinLevel' = ApplyWrites(pinLevel, io')
  /\ call' = [fn |-> "closeCommand", command |-> command]
  /\ UNCHANGED <<variant, singleDoor, doubleDoor, lastSingleDoorState, lastDoubleDoorState>>

(* int closeCommand(String command) *)
closeCommand(command) ==
  /\ variant = "A"
  /\ IF startsWith(command, SingleDoor)
       THEN IF singleDoor.state = DoorUp
              THEN LET e == engageDoor(singleDoor)
                   IN  /\ result' = e.ret
                       /\ io' = e.io
                       /\ commandSource' = ParticleCommand
              ELSE /\ result' = 0
                   /\ io' = << >>
                   /\ commandSource' = commandSource
       ELSE IF startsWith(command, DoubleDoor)
              THEN IF doubleDoor.state = DoorUp
                     THEN LET e == engageDoor(doubleDoor)
                          IN  /\ result' = e.ret
                              /\ io' = e.io
                              /\ commandSource' = ParticleCommand
                     ELSE /\ result' = 0
                          /\ io' = << >>
                          /\ commandSource' = commandSource
              ELSE /\ result' = -1
                   /\ io' = << >>
                   /\ commandSource' = commandSource
  /\ pinLevel' = ApplyWrites(pinLevel, io')
  /\ call' = [fn |-> "closeCommand", command |-> command]
  /\ UNCHANGED <<variant, singleDoor, doubleDoor, lastSingleDoorState, lastDoubleDoorState>>

checkCommand_noElse(command) ==
  /\ variant = "A"
  /\ result' = IF startsWith(command, SingleDoor) THEN singleDoor.state
               ELSE IF startsWith(command, DoubleDoor) THEN doubleDoor.state
               ELSE 0
  /\ io' = << >>
  /\ pinLevel' = ApplyWrites(pinLevel, io')
  /\ call' = [fn |-> "checkCommand", command |-> command]
  /\ UNCHANGED <<variant, singleDoor, doubleDoor, lastSingleDoorState,
                 lastDoubleDoorState, commandSource>>

checkCommand_swapped(command) ==
  /\ variant = "A"
  /\ result' = IF startsWith(command, SingleDoor) THEN doubleDoor.state
               ELSE IF startsWith(command, DoubleDoor) THEN singleDoor.state
               ELSE -1
  /\ io' = << >>
  /\ pinLevel' = ApplyWrites(pinLevel, io')
  /\ call' = [fn |-> "checkCommand", command |-> command]
  /\ UNCHANGED <<variant, singleDoor, doubleDoor, lastSingleDoorState,
                 lastDoubleDoorState, commandSource>>

checkCommand_resample(command) ==
  /\ variant = "A"
  /\ \E r \in Readings :
       LET u == updateDoorState(IF startsWith(command, DoubleDoor)
                                  THEN doubleDoor ELSE singleDoor, r)
       IN  /\ result' = IF startsWith(command, SingleDoor) \/ startsWith(command, DoubleDoor)
                          THEN u.ret ELSE -1
           /\ singleDoor' = IF startsWith(command, DoubleDoor) THEN singleDoor ELSE u.door
           /\ doubleDoor' = IF startsWith(command, DoubleDoor) THEN u.door ELSE doubleDoor
           /\ io' = u.io
  /\ pinLevel' = ApplyWrites(pinLevel, io')
  /\ call' = [fn |-> "checkCommand", command |-> command]
  /\ UNCHANGED <<variant, lastSingleDoorState, lastDoubleDoorState, commandSource>>

(* int checkCommand(String command) *)
checkCommand(command) ==
  /\ variant = "A"
  /\ result' = IF startsWith(command, SingleDoor) THEN singleDoor.state
               ELSE IF startsWith(command, DoubleDoor) THEN doubleDoor.state
               ELSE -1
  /\ io' = << >>
  /\ pinLevel' = ApplyWrites(pinLevel, io')
  /\ call' = [fn |-> "checkCommand", command |-> command]
  /\ UNCHANGED <<variant, singleDoor, doubleDoor, lastSingleDoorState,
                 lastDoubleDoorState, commandSource>>

(* ------------------------------------------------------------------ *)
(* Variant B: loop(), doorCommand()                                    *)
(* ------------------------------------------------------------------ *)

(* void loop(void) of doorController.ino *)
loopB(rd, rs) ==
  /\ variant = "B"
  /\ LET ud == updateDoorState(doubleDoor, rd)
         us == updateDoorState(singleDoor, rs)
     IN  /\ doubleDoor' = ud.door
         /\ singleDoor' = us.door
         /\ io' = ud.io \o us.io \o setLed(us.ret)
         /\ pinLevel' = ApplyWrites(pinLevel, io')
  /\ call' = [fn |-> "loop", command |-> << >>]
  /\ UNCHANGED <<variant, lastSingleDoorState, lastDoubleDoorState, commandSource, result>>

doorCommand_noOffset(command) ==
  /\ variant = "B"
  /\ LET open == startsWith(command, OpenCommand) /\ singleDoor.state = DoorDown
         close == /\ ~startsWith(command, OpenCommand)
                  /\ startsWith(command, CloseCommand)
                  /\ singleDoor.state = DoorUp
         known == \E p \in {OpenCommand, CloseCommand, CheckSingleCommand,
                            CheckDoubleCommand} : startsWith(command, p)
         e == engageDoor(singleDoor)
     IN  /\ result' = IF open \/ close THEN e.ret
                      ELSE IF startsWith(command, CheckSingleCommand) THEN singleDoor.state
                      ELSE IF startsWith(command, CheckDoubleCommand) THEN doubleDoor.state
                      ELSE IF known THEN 0 ELSE -1
         /\ io' = IF open \/ close THEN e.io ELSE << >>
  /\ pinLevel' = ApplyWrites(pinLevel, io')
  /\ call' = [fn |-> "doorCommand", command |-> command]
  /\ UNCHANGED <<variant, singleDoor, doubleDoor, lastSingleDoorState,
                 lastDoubleDoorState, commandSource>>

doorCommand_closeDouble(command) ==
  /\ variant = "B"
  /\ IF startsWith(command, OpenCommand)
       THEN IF singleDoor.state = DoorDown
              THEN LET e == engageDoor(singleDoor)
                   IN  result' = e.ret /\ io' = e.io
              ELSE result' = 0 /\ io' = << >>
       ELSE IF startsWith(command, CloseCommand)
              THEN IF doubleDoor.state = DoorUp
                     THEN LET e == engageDoor(doubleDoor)
                          IN  result' = e.ret /\ io' = e.io
                     ELSE result' = 0 /\ io' = << >>
       ELSE IF startsWith(command, CheckSingleCommand)
              THEN result' = StateOffset + singleDoor.state /\ io' = << >>
       ELSE IF startsWith(command, CheckDoubleCommand)
              THEN result' = StateOffset + doubleDoor.state /\ io' = << >>
       ELSE result' = -1 /\ io' = << >>
  /\ pinLevel' = ApplyWrites(pinLevel, io')
  /\ call' = [fn |-> "doorCommand", command |-> command]
  /\ UNCHANGED <<variant, singleDoor, doubleDoor, lastSingleDoorState,
                 lastDoubleDoorState, commandSource>>

(* int doorCommand(String command) *)
doorCommand(command) ==
  /\ variant = "B"
  /\ IF startsWith(command, OpenCommand)
       THEN IF singleDoor.state = DoorDown
              THEN LET e == engageDoor(singleDoor)
                   IN  result' = e.ret /\ io' = e.io
              ELSE result' = 0 /\ io' = << >>
       ELSE IF startsWith(command, CloseCommand)
              THEN IF singleDoor.state = DoorUp
                     THEN LET e == engageDoor(singleDoor)
                          IN  result' = e.ret /\ io' = e.io
                     ELSE result' = 0 /\ io' = << >>
       ELSE IF startsWith(command, CheckSingleCommand)
              THEN result' = StateOffset + singleDoor.state /\ io' = << >>
       ELSE IF startsWith(command, CheckDoubleCommand)
              THEN result' = StateOffset + doubleDoor.state /\ io' = << >>
       ELSE result' = -1 /\ io' = << >>
  /\ pinLevel' = ApplyWrites(pinLevel, io')
  /\ call' = [fn |-> "doorCommand", command |-> command]
  /\ UNCHANGED <<variant, singleDoor, doubleDoor, lastSingleDoorState,
                 lastDoubleDoorState, commandSource>>

Next ==
  \/ \E rd \in Readings, rs \in Readings : loop(rd, rs)
  \/ \E command \in Commands : openCommand(command)
  \/ \E command \in Commands : closeCommand(command)
  \/ \E command \in Commands : checkCommand(command)
  \/ \E rd \in Readings, rs \in Readings : loopB(rd, rs)
  \/ \E command \in Commands : doorCommand(command)

Spec == Init /\ [][Next]_vars


(* ================================================================== *)
(* Properties                                                          *)
(* ================================================================== *)

(* p is a prefix of s *)
IsPrefix(p, s) == \E n \in 0..Len(s) : SubSeq(s, 1, n) = p

(* the digitalWrite calls of trace t on pin *)
WritesOn(t, pin) ==
  SelectSeq(t, LAMBDA e : e.kind = "digitalWrite" /\ e.pin = pin)

(* pulses of trace t on pin: a write of HIGH directly followed, on that *)
(* pin, by a write of LOW                                               *)
Pulses(t, pin) ==
  LET w == WritesOn(t, pin)
  IN  Cardinality({i \in 1..(Len(w) - 1) :
                     w[i].value = "HIGH" /\ w[i + 1].value = "LOW"})

ControlPins == {"D0", "D4"}

(* trace t leaves every control line alone *)
NoActuation(t) ==
  \A i \in 1..Len(t) : ~(t[i].kind = "digitalWrite" /\ t[i].pin \in ControlPins)

Published(t) == SelectSeq(t, LAMBDA e : e.kind = "publish")

PublishedFor(t, prefix) ==
  SelectSeq(t, LAMBDA e : e.kind = "publish" /\ e.event[1] = prefix)

(* what digitalRead returned on pin in trace t *)
ReadingOn(t, pin) ==
  SelectSeq(t, LAMBDA e : e.kind = "digitalRead" /\ e.pin = pin)[1].value

DoorIds == {"single", "double"}

DoorOf(id) == IF id = "single" THEN singleDoor ELSE doubleDoor

OtherPin(id) == IF id = "single" THEN "D4" ELSE "D0"

(* the callback c is an open (a close) request for door id *)
IsOpenOn(c, id) ==
  \/ /\ c.fn = "openCommand"
     /\ \/ id = "single" /\ IsPrefix(SingleDoor, c.command)
        \/ id = "double" /\ IsPrefix(DoubleDoor, c.command)
  \/ /\ c.fn = "doorCommand"
     /\ id = "single"
     /\ IsPrefix(OpenCommand, c.command)

IsCloseOn(c, id) ==
  \/ /\ c.fn = "closeCommand"
     /\ \/ id = "single" /\ IsPrefix(SingleDoor, c.command)
        \/ id = "double" /\ IsPrefix(DoubleDoor, c.command)
  \/ /\ c.fn = "doorCommand"
     /\ id = "single"
     /\ IsPrefix(CloseCommand, c.command)

(* the callback c is a cloud function whose argument names nothing the *)
(* sketch recognises                                                   *)
IsUnrecognized(c) ==
  \/ /\ c.fn \in {"openCommand", "closeCommand", "checkCommand"}
     /\ ~IsPrefix(SingleDoor, c.command)
     /\ ~IsPrefix(DoubleDoor, c.command)
  \/ /\ c.fn = "doorCommand"
     /\ \A p \in {OpenCommand, CloseCommand, CheckSingleCommand, CheckDoubleCommand} :
          ~IsPrefix(p, c.command)

(* the callback c is a status query *)
IsCheck(c) ==
  \/ c.fn = "checkCommand"
  \/ /\ c.fn = "doorCommand"
     /\ \/ IsPrefix(CheckSingleCommand, c.command)
        \/ IsPrefix(CheckDoubleCommand, c.command)

(* the state the code keeps between callbacks *)
tracked == <<singleDoor, doubleDoor, lastSingleDoorState, lastDoubleDoorState,
             commandSource>>

(* ------------------------------------------------------------------ *)
(* C1: open on a door tracked Down returns 1 with exactly one pulse on *)
(* that door's control line, open on a door tracked Up returns 0 with  *)
(* no pulse; close on a door tracked Up returns 1 with exactly one     *)
(* pulse, close on a door tracked Down returns 0 with no pulse         *)
(* (openCommand / closeCommand for both doors, OPEN / CLOSE of         *)
(* doorCommand for the single door).                                   *)
(* ------------------------------------------------------------------ *)
C1_Step ==
  \A id \in DoorIds :
    /\ (IsOpenOn(call', id) /\ DoorOf(id).state = DoorDown) =>
         /\ result' = 1
         /\ Pulses(io', DoorOf(id).controlPin) = 1
         /\ Len(WritesOn(io', DoorOf(id).controlPin)) = 2
         /\ WritesOn(io', OtherPin(id)) = << >>
    /\ (IsOpenOn(call', id) /\ DoorOf(id).state = DoorUp) =>
         /\ result' = 0
         /\ NoActuation(io')
    /\ (IsCloseOn(call', id) /\ DoorOf(id).state = DoorUp) =>
         /\ result' = 1
         /\ Pulses(io', DoorOf(id).controlPin) = 1
         /\ Len(WritesOn(io', DoorOf(id).controlPin)) = 2
         /\ WritesOn(io', OtherPin(id)) = << >>
    /\ (IsCloseOn(call', id) /\ DoorOf(id).state = DoorDown) =>
         /\ result' = 0
         /\ NoActuation(io')

C1_EngageByTrackedState == [][C1_Step]_vars

(* an open of the double door, tracked Down, has pulsed D4 once *)
C1_Witness ==
  /\ IsOpenOn(call, "double")
  /\ doubleDoor.state = DoorDown
  /\ result = 1
  /\ Pulses(io, "D4") = 1

(* ------------------------------------------------------------------ *)
(* C2: a command string that starts with no recognised identifier      *)
(* makes every entry point return -1, pulse no door and leave the      *)
(* doors' tracked state and label, the last-published states and the   *)
(* command source unchanged.                                           *)
(* ------------------------------------------------------------------ *)
C2_Step ==
  IsUnrecognized(call') =>
    /\ result' = -1
    /\ NoActuation(io')
    /\ io' = << >>
    /\ pinLevel' = pinLevel
    /\ tracked' = tracked

C2_UnrecognizedIsRejected == [][C2_Step]_vars

(* checkCommand has rejected a near miss while a remote command was pending *)
C2_Witness ==
  /\ call.fn = "checkCommand"
  /\ IsUnrecognized(call)
  /\ result = -1
  /\ commandSource = ParticleCommand
  /\ singleDoor.state = DoorDown

(* ------------------------------------------------------------------ *)
(* C3: a status query (checkCommand; CHECKSINGLE / CHECKDOUBLE of      *)
(* doorCommand) changes no door's tracked state or label, nor the      *)
(* command source or the last-published states, and pulses nothing.    *)
(* ------------------------------------------------------------------ *)
C3_Step ==
  IsCheck(call') =>
    /\ tracked' = tracked
    /\ NoActuation(io')
    /\ \A i \in 1..Len(io') : io'[i].kind # "digitalWrite"
    /\ pinLevel' = pinLevel

C3_CheckIsReadOnly == [][C3_Step]_vars

(* CHECKDOUBLE answered in variant B after the doors were sampled *)
C3_Witness ==
  /\ call.fn = "doorCommand"
  /\ IsPrefix(CheckDoubleCommand, call.command)
  /\ doubleDoor.stateString = "Up"
  /\ singleDoor.stateString = "Down"

(* ------------------------------------------------------------------ *)
(* C4: checkCommand returns the named door's tracked state as an       *)
(* integer: 0 when Up, 1 when Down, 2 when Unknown (never sampled),    *)
(* -1 for an unrecognised door; the tracked state is 2 at start-up and *)
(* afterwards whatever the last sample of that door wrote, since only  *)
(* a poll cycle changes it.                                            *)
(* ------------------------------------------------------------------ *)
StateNumber(door) ==
  CASE door.stateString = "Up" -> 0
    [] door.stateString = "Down" -> 1
    [] door.stateString = "" -> 2

SampledNumber(t, pin) == IF ReadingOn(t, pin) = 1 THEN 1 ELSE 0

C4_Step ==
  /\ call'.fn = "checkCommand" =>
       result' = IF IsPrefix(SingleDoor, call'.command) THEN StateNumber(singleDoor)
                 ELSE IF IsPrefix(DoubleDoor, call'.command) THEN StateNumber(doubleDoor)
                 ELSE -1
  /\ (variant = "A" /\ call'.fn = "loop") =>
       /\ singleDoor'.state = SampledNumber(io', "D2")
       /\ doubleDoor'.state = SampledNumber(io', "D6")
       /\ StateNumber(singleDoor') = singleDoor'.state
       /\ StateNumber(doubleDoor') = doubleDoor'.state
  /\ (variant = "A" /\ call'.fn # "loop") =>
       /\ singleDoor' = singleDoor
       /\ doubleDoor' = doubleDoor

C4_CheckReturnsTrackedState ==
  /\ singleDoor.state = 2 /\ StateNumber(singleDoor) = 2
  /\ doubleDoor.state = 2 /\ StateNumber(doubleDoor) = 2
  /\ [][C4_Step]_vars

(* check DOUBLE has answered 1 while the single door is Up *)
C4_Witness ==
  /\ call.fn = "checkCommand"
  /\ IsPrefix(DoubleDoor, call.command)
  /\ result = 1
  /\ doubleDoor.stateString = "Down"
  /\ singleDoor.stateString = "Up"

(* ------------------------------------------------------------------ *)
(* C5: doorCommand returns 10 + state (10, 11 or 12) for CHECKSINGLE / *)
(* CHECKDOUBLE, 0 or 1 for OPEN / CLOSE and -1 for anything else, so   *)
(* the kind of request can be read off the result.                     *)
(* ------------------------------------------------------------------ *)
C5_Step ==
  call'.fn = "doorCommand" =>
    LET cmd == call'.command
        toggle == IsPrefix(OpenCommand, cmd) \/ IsPrefix(CloseCommand, cmd)
    IN  /\ IsPrefix(CheckSingleCommand, cmd) => result' = 10 + StateNumber(singleDoor)
        /\ IsPrefix(CheckDoubleCommand, cmd) => result' = 10 + StateNumber(doubleDoor)
        /\ result' \in {10, 11, 12} <=> (IsCheck(call') /\ ~toggle)
        /\ result' \in {0, 1} <=> toggle
        /\ result' = -1 <=> IsUnrecognized(call')
        /\ result' \in {-1, 0, 1, 10, 11, 12}

C5_OverloadedResult == [][C5_Step]_vars

(* CHECKSINGLE has answered 11 *)
C5_Witness ==
  /\ call.fn = "doorCommand"
  /\ IsPrefix(CheckSingleCommand, call.command)
  /\ result = 11
  /\ singleDoor.state = DoorDown

(* ------------------------------------------------------------------ *)
(* C6: a repeated open (or close) of the same door never sends a       *)
(* second pulse, also when it arrives after the first pulse and before *)
(* the next poll cycle has sampled the door again.  Stated for the     *)
(* shortest such run: the request that directly follows an engaging    *)
(* request of the same kind for the same door sends no pulse.          *)
(* ------------------------------------------------------------------ *)
C6_Step ==
  \A id \in DoorIds :
    /\ (IsOpenOn(call, id) /\ result = 1 /\ IsOpenOn(call', id)) =>
         Pulses(io', DoorOf(id).controlPin) = 0
    /\ (IsCloseOn(call, id) /\ result = 1 /\ IsCloseOn(call', id)) =>
         Pulses(io', DoorOf(id).controlPin) = 0

C6_NoSecondPulse == [][C6_Step]_vars

(* ------------------------------------------------------------------ *)
(* C7: in a poll cycle of variant A, a door whose update returns its   *)
(* last-published state gets no notification; a door whose update      *)
(* returns another state gets exactly one, naming the new state, and   *)
(* that state becomes the last-published one; so an update returning   *)
(* what the previous update of that door returned publishes nothing.   *)
(* ------------------------------------------------------------------ *)
Label(n) == IF n = 1 THEN "Down" ELSE "Up"

C7_Door(door, last, last2, pin, prefix) ==
  LET sensed == SampledNumber(io', pin)
      notes == PublishedFor(io', prefix)
  IN  /\ sensed = last => notes = << >>
      /\ sensed # last => /\ Len(notes) = 1
                          /\ notes[1].event = <<prefix, Label(sensed)>>
      /\ last2 = sensed
      \* door.state is what the previous update of this door returned
      /\ sensed = door.state => notes = << >>

C7_Step ==
  (variant = "A" /\ call'.fn = "loop") =>
    /\ C7_Door(doubleDoor, lastDoubleDoorState, lastDoubleDoorState', "D6", "double door ")
    /\ C7_Door(singleDoor, lastSingleDoorState, lastSingleDoorState', "D2", "single door ")
    /\ Len(Published(io')) = Len(PublishedFor(io', "double door "))
                             + Len(PublishedFor(io', "single door "))

C7_TransitionDetection == [][C7_Step]_vars

(* a poll cycle that reported the single door and stayed silent about *)
(* the unchanged double door                                          *)
C7_Witness ==
  /\ variant = "A"
  /\ call.fn = "loop"
  /\ Len(PublishedFor(io, "single door ")) = 1
  /\ PublishedFor(io, "double door ") = << >>
  /\ lastDoubleDoorState = DoorDown

(* ------------------------------------------------------------------ *)
(* C8: a notification carries ParticleCommand only for the transition  *)
(* of the door the remote command engaged.  Stated for the poll cycle  *)
(* that directly follows an engaging openCommand / closeCommand: it    *)
(* publishes no ParticleCommand notification for the other door.       *)
(* ------------------------------------------------------------------ *)
Prefix(id) == IF id = "single" THEN "single door " ELSE "double door "

C8_Step ==
  \A id \in DoorIds :
    ( /\ variant = "A"
      /\ IsOpenOn(call, id) \/ IsCloseOn(call, id)
      /\ result = 1
      /\ call'.fn = "loop" ) =>
        \A i \in 1..Len(Published(io')) :
          Published(io')[i].data = ParticleCommand =>
            Published(io')[i].event[1] = Prefix(id)

C8_AnnotationOnlyForEngagedDoor == [][C8_Step]_vars

(* a pending ParticleCommand annotation stays until a notification is *)
(* published, and the first notification published carries it         *)
AnnotationKept ==
  commandSource = ParticleCommand =>
    IF Published(io') = << >>
      THEN commandSource' = ParticleCommand
      ELSE Published(io')[1].data = ParticleCommand

(* ------------------------------------------------------------------ *)
(* C9 as stated: with the single door tracked Down, close SINGLE       *)
(* returns 1, pulses the single door once and marks the command        *)
(* source ParticleCommand.                                             *)
(* ------------------------------------------------------------------ *)
C9_Original_Step ==
  ( /\ call'.fn = "closeCommand"
    /\ IsPrefix(SingleDoor, call'.command)
    /\ singleDoor.state = DoorDown ) =>
      /\ result' = 1
      /\ Pulses(io', "D0") = 1
      /\ commandSource' = ParticleCommand

C9_CloseSingleWhenDown == [][C9_Original_Step]_vars

(* ------------------------------------------------------------------ *)
(* C9 amended: with the single door tracked Up, close SINGLE returns   *)
(* 1, sends exactly one pulse on the single door's control line and    *)
(* marks the command source ParticleCommand; the next notification     *)
(* published carries that annotation.                                  *)
(* ------------------------------------------------------------------ *)
C9_Step ==
  /\ ( /\ call'.fn = "closeCommand"
       /\ IsPrefix(SingleDoor, call'.command)
       /\ singleDoor.state = DoorUp ) =>
         /\ result' = 1
         /\ Pulses(io', "D0") = 1
         /\ Len(WritesOn(io', "D0")) = 2
         /\ WritesOn(io', "D4") = << >>
         /\ commandSource' = ParticleCommand
  /\ AnnotationKept

C9_CloseSingleWhenUp == [][C9_Step]_vars

(* close SINGLE has engaged the single door, tracked Up *)
C9_Witness ==
  /\ call.fn = "closeCommand"
  /\ IsPrefix(SingleDoor, call.command)
  /\ singleDoor.state = DoorUp
  /\ result = 1
  /\ Pulses(io, "D0") = 1
  /\ commandSource = ParticleCommand

(* ------------------------------------------------------------------ *)
(* C10: an openCommand / closeCommand that engages a door (returns 1)  *)
(* sets the command source to ParticleCommand, and the next            *)
(* notification the poll loop publishes carries ParticleCommand; one   *)
(* that returns 0 or -1 leaves the command source unchanged.           *)
(* ------------------------------------------------------------------ *)
C10_Step ==
  /\ call'.fn \in {"openCommand", "closeCommand"} =>
       /\ result' \in {-1, 0, 1}
       /\ result' = 1 => commandSource' = ParticleCommand
       /\ result' \in {-1, 0} => commandSource' = commandSource
  /\ AnnotationKept
  /\ \A i \in 1..Len(Published(io')) :
       Published(io')[i].data \in {WallSwitch, ParticleCommand}

C10_EngagementMarksSource == [][C10_Step]_vars

(* a poll cycle has published a notification carrying ParticleCommand *)
(* and the command source is back at its default                      *)
C10_Witness ==
  /\ call.fn = "loop"
  /\ Published(io) # << >>
  /\ Published(io)[1].data = ParticleCommand
  /\ commandSource = WallSwitch

(* ------------------------------------------------------------------ *)
(* C11: for each door the label is the text of the last sensed state   *)
(* ("Down" when the state is Down, "Up" when it is Up); the state is   *)
(* Unknown only until the door's first sample: a poll cycle leaves it  *)
(* Up or Down, and a door that is Up or Down never becomes Unknown     *)
(* again.  (A door not yet sampled has the empty label.)               *)
(* ------------------------------------------------------------------ *)
Sampled(door) == door.state \in {DoorUp, DoorDown}

C11_Door(door) ==
  /\ door.state \in {DoorUp, DoorDown, StateUnknown}
  /\ door.state = DoorDown => door.stateString = "Down"
  /\ door.state = DoorUp => door.stateString = "Up"
  /\ door.state = StateUnknown => door.stateString = ""

C11_State ==
  /\ C11_Door(singleDoor)
  /\ C11_Door(doubleDoor)
  \* Unknown only before the first poll cycle
  /\ call.fn = "loop" => Sampled(singleDoor) /\ Sampled(doubleDoor)

C11_Step ==
  /\ Sampled(singleDoor) => Sampled(singleDoor')
  /\ Sampled(doubleDoor) => Sampled(doubleDoor')
  /\ call'.fn = "loop" =>
       /\ singleDoor'.stateString = Label(SampledNumber(io', "D2"))
       /\ doubleDoor'.stateString = Label(SampledNumber(io', "D6"))

C12_Door(door2, pin) ==
  /\ ReadingOn(io', pin) = 1 => door2.state = DoorDown /\ door2.stateString = "Down"
  /\ ReadingOn(io', pin) = 0 => door2.state = DoorUp /\ door2.stateString = "Up"

C12_Step ==
  call'.fn = "loop" =>
    /\ C12_Door(singleDoor', "D2")
    /\ C12_Door(doubleDoor', "D6")
    /\ variant = "A" =>
         /\ lastSingleDoorState' = (IF ReadingOn(io', "D2") = 1 THEN DoorDown ELSE DoorUp)
         /\ lastDoubleDoorState' = (IF ReadingOn(io', "D6") = 1 THEN DoorDown ELSE DoorUp)
    /\ variant = "B" =>
         WritesOn(io', "D7") =
           <<digitalWrite("D7", IF ReadingOn(io', "D2") = 0 THEN "HIGH" ELSE "LOW")>>

C12_SensorRoundTrip == [][C12_Step]_vars

(* variant B sampled the single door Down and the double door Up *)
C12_Witness ==
  /\ variant = "B"
  /\ call.fn = "loop"
  /\ ReadingOn(io, "D2") = 1
  /\ singleDoor.stateString = "Down"
  /\ ReadingOn(io, "D6") = 0
  /\ doubleDoor.stateString = "Up"
  /\ pinLevel["D7"] = "LOW"

(* ------------------------------------------------------------------ *)
(* C13: the first poll cycle after start-up of variant A publishes     *)
(* exactly one notification for each door, two in all, whatever is     *)
(* sensed; no notification ever names Unknown: the state named is      *)
(* "Up" or "Down".                                                     *)
(* ------------------------------------------------------------------ *)
BeforeFirstPoll ==
  /\ singleDoor.stateString = ""
  /\ doubleDoor.stateString = ""

C13_Step ==
  /\ (variant = "A" /\ BeforeFirstPoll /\ call'.fn = "loop") =>
       /\ Len(Published(io')) = 2
       /\ Len(PublishedFor(io', "double door ")) = 1
       /\ Len(PublishedFor(io', "single door ")) = 1
       /\ PublishedFor(io', "double door ")[1].event[2] = Label(SampledNumber(io', "D6"))
       /\ PublishedFor(io', "single door ")[1].event[2] = Label(SampledNumber(io', "D2"))
  /\ \A i \in 1..Len(Published(io')) :
       Published(io')[i].event[2] \in {"Up", "Down"}

C13_FirstPollReports ==
  /\ BeforeFirstPoll /\ lastSingleDoorState = 2 /\ lastDoubleDoorState = 2
  /\ [][C13_Step]_vars

(* a poll cycle has run and published one notification for each door, *)
(* both naming a sensed state, as the first cycle does                *)
C13_Witness ==
  /\ variant = "A"
  /\ call.fn = "loop"
  /\ Len(Published(io)) = 2
  /\ Published(io)[1].event = <<"double door ", "Up">>
  /\ Published(io)[2].event = <<"single door ", "Up">>
  /\ Published(io)[1].data = WallSwitch

(* ------------------------------------------------------------------ *)
(* C14: while a door's tracked state is Unknown, open and close for    *)
(* that door return 0, pulse nothing and leave the command source      *)
(* alone; so no control line is driven before the first poll cycle and *)
(* the first poll cycle's notifications all carry WallSwitch.          *)
(* ------------------------------------------------------------------ *)
C14_Step ==
  /\ \A id \in DoorIds :
       ( /\ IsOpenOn(call', id) \/ IsCloseOn(call', id)
         /\ DoorOf(id).state = StateUnknown ) =>
           /\ result' = 0
           /\ NoActuation(io')
           /\ commandSource' = commandSource
  /\ (BeforeFirstPoll /\ call'.fn # "loop") =>
       /\ \A i \in 1..Len(io') : ~(io'[i].kind = "digitalWrite" /\ io'[i].value = "HIGH")
       /\ commandSource' = WallSwitch
  /\ (BeforeFirstPoll /\ call'.fn = "loop") =>
       \A i \in 1..Len(Published(io')) : Published(io')[i].data = WallSwitch

C14_State ==
  BeforeFirstPoll =>
    /\ singleDoor.state = StateUnknown
    /\ doubleDoor.state = StateUnknown
    /\ commandSource = WallSwitch
    /\ \A p \in ControlPins : pinLevel[p] = "LOW"

C14_UnknownIsNoOp == []C14_State /\ [][C14_Step]_vars

(* close DOUBLE before the first poll cycle: refused *)
C14_Witness ==
  /\ IsCloseOn(call, "double")
  /\ doubleDoor.state = StateUnknown
  /\ result = 0
  /\ io = << >>
  /\ commandSource = WallSwitch

(* ------------------------------------------------------------------ *)
(* C15: only the sensing of a poll cycle changes a door record:        *)
(* openCommand, closeCommand and OPEN / CLOSE of doorCommand leave     *)
(* every door's tracked state and label and the last-published states  *)
(* as they were, also when they engage the door.                       *)
(* ------------------------------------------------------------------ *)
C15_Step ==
  /\ \A id \in DoorIds :
       (IsOpenOn(call', id) \/ IsCloseOn(call', id)) =>
         /\ singleDoor' = singleDoor
         /\ doubleDoor' = doubleDoor
         /\ lastSingleDoorState' = lastSingleDoorState
         /\ lastDoubleDoorState' = lastDoubleDoorState
  /\ (singleDoor' # singleDoor \/ doubleDoor' # doubleDoor) =>
       /\ call'.fn = "loop"
       /\ \E i \in 1..Len(io') : io'[i].kind = "digitalRead"

C15_OnlySensingMutatesDoors == [][C15_Step]_vars

(* OPEN has engaged the single door, which is still tracked Down *)
C15_Witness ==
  /\ call.fn = "doorCommand"
  /\ IsOpenOn(call, "single")
  /\ result = 1
  /\ Pulses(io, "D0") = 1
  /\ singleDoor.state = DoorDown
  /\ singleDoor.stateString = "Down"

(* ------------------------------------------------------------------ *)
(* C16: a poll cycle handles the double door before the single door:   *)
(* the double door is sampled, and in variant A its notification       *)
(* published, before the single door's sense line is raised; when both *)
(* doors change in one cycle the double door's notification comes      *)
(* first and carries the command source of that moment, and the single *)
(* door's notification carries WallSwitch.                             *)
(* ------------------------------------------------------------------ *)

(* positions in trace t of the calls that concern the pins in ps *)
IndexOn(t, ps) ==
  {i \in 1..Len(t) : t[i].kind \in {"digitalWrite", "digitalRead"} /\ t[i].pin \in ps}

IndexFor(t, prefix) ==
  {i \in 1..Len(t) : t[i].kind = "publish" /\ t[i].event[1] = prefix}

C16_Step ==
  call'.fn = "loop" =>
    LET dbl == IndexOn(io', {"D5", "D6"}) \cup IndexFor(io', "double door ")
        sgl == IndexOn(io', {"D1", "D2"}) \cup IndexFor(io', "single door ")
        led == IndexOn(io', {"D7"})
    IN  /\ IndexOn(io', {"D5", "D6"}) # {}
        /\ IndexOn(io', {"D1", "D2"}) # {}
        /\ \A i \in dbl, j \in sgl : i < j
        /\ \A j \in sgl, k \in led : j < k
        /\ ( /\ PublishedFor(io', "double door ") # << >>
             /\ PublishedFor(io', "single door ") # << >> ) =>
               /\ Published(io')[1].event[1] = "double door "
               /\ Published(io')[1].data = commandSource
               /\ Published(io')[2].event[1] = "single door "
               /\ Published(io')[2].data = WallSwitch

C16_DoubleBeforeSingle == [][C16_Step]_vars

(* both doors changed in one cycle while a remote command was pending: *)
(* the double door's notification took the annotation                  *)
C16_Witness ==
  /\ variant = "A"
  /\ call.fn = "loop"
  /\ Len(Published(io)) = 2
  /\ Published(io)[1].event[1] = "double door "
  /\ Published(io)[1].data = ParticleCommand
  /\ Published(io)[2].event[1] = "single door "
  /\ Published(io)[2].data = WallSwitch

(* ------------------------------------------------------------------ *)
(* C17: in variant B no command actuates the double door: its control  *)
(* line D4 is never driven high, and whether OPEN / CLOSE engages is   *)
(* decided by the single door's tracked state alone.                   *)
(* ------------------------------------------------------------------ *)
C17_Step ==
  variant = "B" =>
    /\ \A i \in 1..Len(io') : ~(io'[i].kind = "digitalWrite" /\ io'[i].pin = "D4")
    /\ IsOpenOn(call', "single") =>
         /\ result' = (IF singleDoor.state = DoorDown THEN 1 ELSE 0)
         /\ WritesOn(io', "D0") = (IF singleDoor.state = DoorDown
                                     THEN <<digitalWrite("D0", "HIGH"),
                                            digitalWrite("D0", "LOW")>>
                                     ELSE << >>)
    /\ IsCloseOn(call', "single") =>
         /\ result' = (IF singleDoor.state = DoorUp THEN 1 ELSE 0)
         /\ WritesOn(io', "D0") = (IF singleDoor.state = DoorUp
                                     THEN <<digitalWrite("D0", "HIGH"),
                                            digitalWrite("D0", "LOW")>>
                                     ELSE << >>)

C17_State ==
  variant = "B" => /\ pinLevel["D4"] = "LOW"
                   /\ Pulses(io, "D4") = 0

C17_DoubleNeverActuated == []C17_State /\ [][C17_Step]_vars

(* CLOSE refused for the single door, tracked Down, although the *)
(* double door is tracked Up                                     *)
C17_Witness ==
  /\ variant = "B"
  /\ IsCloseOn(call, "single")
  /\ singleDoor.state = DoorDown
  /\ doubleDoor.state = DoorUp
  /\ result = 0
  /\ io = << >>

(* ------------------------------------------------------------------ *)
(* C18: every output line is low again after use: an engagement writes *)
(* HIGH then LOW on the door's control line, a sample writes HIGH then *)
(* LOW on the door's sense-output line around the read; so between     *)
(* callbacks all control and sense-output lines are low, and during a  *)
(* callback at most one of them is high at a time.                     *)
(* ------------------------------------------------------------------ *)
DoorLines == {"D0", "D1", "D4", "D5"}

(* level of pin after the first k calls of trace t, all lines low before *)
LevelAt(t, pin, k) ==
  LET ws == {i \in 1..k : t[i].kind = "digitalWrite" /\ t[i].pin = pin}
  IN  IF ws = {} THEN "LOW"
      ELSE t[CHOOSE i \in ws : \A j \in ws : j <= i].value

HighLow(pin) == <<digitalWrite(pin, "HIGH"), digitalWrite(pin, "LOW")>>

C18_LinesReturnLow ==
  /\ \A p \in DoorLines : pinLevel[p] = "LOW"
  /\ \A k \in 0..Len(io) :
       Cardinality({p \in DoorLines : LevelAt(io, p, k) = "HIGH"}) <= 1
  /\ \A p \in DoorLines :
       LET w == WritesOn(io, p)
       IN  \A i \in 1..Len(w) :
             w[i].value = "HIGH" => i < Len(w) /\ w[i + 1].value = "LOW"
  /\ \A id \in DoorIds :
       ((IsOpenOn(call, id) \/ IsCloseOn(call, id)) /\ result = 1) =>
         WritesOn(io, DoorOf(id).controlPin) = HighLow(DoorOf(id).controlPin)
  /\ call.fn = "loop" =>
       /\ WritesOn(io, "D5") = HighLow("D5")
       /\ WritesOn(io, "D1") = HighLow("D1")
       /\ SubSeq(io, 1, 3) = <<digitalWrite("D5", "HIGH"),
                               digitalRead("D6", ReadingOn(io, "D6")),
                               digitalWrite("D5", "LOW")>>
       /\ \E i \in 1..(Len(io) - 2) :
            SubSeq(io, i, i + 2) = <<digitalWrite("D1", "HIGH"),
                                     digitalRead("D2", ReadingOn(io, "D2")),
                                     digitalWrite("D1", "LOW")>>

(* close DOUBLE has pulsed D4 and left it low *)
C18_Witness ==
  /\ IsCloseOn(call, "double")
  /\ result = 1
  /\ WritesOn(io, "D4") = HighLow("D4")
  /\ pinLevel["D4"] = "LOW"

(* ------------------------------------------------------------------ *)
(* C19: in variant A the command source is ParticleCommand only if an  *)
(* openCommand / closeCommand has engaged a door since the last        *)
(* notification was published (or since start-up); otherwise it is     *)
(* WallSwitch.  It starts as WallSwitch, becomes ParticleCommand only  *)
(* in an engaging command, and is WallSwitch after every callback that *)
(* publishes.                                                          *)
(* ------------------------------------------------------------------ *)
C19_Step ==
  /\ commandSource' \in {WallSwitch, ParticleCommand}
  /\ (commandSource = WallSwitch /\ commandSource' = ParticleCommand) =>
       /\ call'.fn \in {"openCommand", "closeCommand"}
       /\ result' = 1
       /\ ~NoActuation(io')
  /\ Published(io') # << >> => commandSource' = WallSwitch

C19_SourceOnlyAfterEngagement ==
  /\ commandSource = "WallSwitch"
  /\ [][C19_Step]_vars

(* a poll cycle with nothing to report has left the remote annotation *)
(* pending                                                            *)
C19_Witness ==
  /\ call.fn = "loop"
  /\ Published(io) = << >>
  /\ commandSource = ParticleCommand

(* ------------------------------------------------------------------ *)
(* C20: in variant A, between callbacks each door's last-published     *)
(* state equals its tracked state, from start-up on; so successive     *)
(* notifications for one door name alternating states.                 *)
(* ------------------------------------------------------------------ *)
C20_State ==
  variant = "A" =>
    /\ lastSingleDoorState = singleDoor.state
    /\ lastDoubleDoorState = doubleDoor.state

C20_Alternate(last, prefix) ==
  \A i \in 1..Len(PublishedFor(io', prefix)) :
    last # StateUnknown =>
      PublishedFor(io', prefix)[i].event[2] # Label(last)

C20_Step ==
  variant = "A" =>
    /\ C20_Alternate(lastSingleDoorState, "single door ")
    /\ C20_Alternate(lastDoubleDoorState, "double door ")
    \* the last-published state is the state the door's last notification named
    /\ PublishedFor(io', "single door ") # << >> =>
         Label(lastSingleDoorState') = PublishedFor(io', "single door ")[1].event[2]
    /\ PublishedFor(io', "double door ") # << >> =>
         Label(lastDoubleDoorState') = PublishedFor(io', "double door ")[1].event[2]
    /\ PublishedFor(io', "single door ") = << >> =>
         lastSingleDoorState' = lastSingleDoorState
    /\ PublishedFor(io', "double door ") = << >> =>
         lastDoubleDoorState' = lastDoubleDoorState

C20_LastPublishedIsTracked == []C20_State /\ [][C20_Step]_vars

(* after an engaging command and a poll cycle that saw the single door *)
(* go up: both pairs agree                                             *)
C20_Witness ==
  /\ variant = "A"
  /\ call.fn = "loop"
  /\ PublishedFor(io, "single door ") = <<publish(<<"single door ", "Up">>, ParticleCommand)>>
  /\ lastSingleDoorState = DoorUp
  /\ singleDoor.state = DoorUp
  /\ lastDoubleDoorState = DoorUp
  /\ doubleDoor.state = DoorUp

=============================================================================
